---- MODULE Spec2Model ----
(***************************************************************************)
(* Model of romm-mobile: the version utilities (services/versionUtils:     *)
(* compareVersions and isVersionAtLeast), the server context               *)
(* (ServerProvider) and the login screen (LoginScreen).                    *)
(*                                                                         *)
(* A JavaScript string is a sequence of one-character strings.  A          *)
(* JavaScript number is an integer; NaN and undefined are the two          *)
(* sentinels below (no parsed segment is negative: '-' never reaches       *)
(* Number, it is cut off by split('-')).                                   *)
(***************************************************************************)
EXTENDS Integers, Sequences, FiniteSets, TLC

\* a call of compareVersions / isVersionAtLeast
VARIABLES version1, version2, pc, result, gate, warnings, calls

\* ServerProvider: its two state slots, the refreshServerInfo calls in
\* flight, the outcome of the last finished probe and the last query
VARIABLES serverVersion, isLoading, pending, lastProbe, queried

\* LoginScreen, connection test: the URL field, the debounce timer, the
\* tests in flight (the base URL each heartbeat went to), the status shown,
\* apiClient.baseUrl and whether loadSavedUrl has run
VARIABLES serverUrl, timer, tests, connectionStatus, baseUrl, loaded

\* a call of formatUrl
VARIABLES fmtUrl, fmtResult

\* LoginScreen, login: the credentials, the position of each handler, the
\* modal flag, and counters of what happened (presses of the login button,
\* calls of login, logins that resolved, session checks that were valid
\* and followed by a completed refreshUser, calls of router.replace('/'))
VARIABLES username, password, pcLogin, pcSso, pcClose, showSsoWebView,
          attempts, loginCalls, loginOks, sessionOks, navigations

versionVars == <<version1, version2, pc, result, gate, warnings, calls>>
serverVars == <<serverVersion, isLoading, pending, lastProbe, queried>>
connVars == <<serverUrl, timer, tests, connectionStatus, baseUrl, loaded>>
urlVars == <<fmtUrl, fmtResult>>
loginVars == <<username, password, pcLogin, pcSso, pcClose, showSsoWebView,
               attempts, loginCalls, loginOks, sessionOks, navigations>>

vars == <<versionVars, serverVars, connVars, urlVars, loginVars>>

-----------------------------------------------------------------------------
(* JavaScript values *)

NaN == -1
undefined == -2
Null == <<"null">>

IsNaN(x) == x = NaN

\* `x || 0`: 0, NaN and undefined are falsy
OrZero(x) == IF x = undefined \/ x = NaN \/ x = 0 THEN 0 ELSE x

-----------------------------------------------------------------------------
(* String.prototype.split(sep)[...] for a one-character separator *)

RECURSIVE IndexOfFrom(_, _, _)
IndexOfFrom(s, ch, i) ==
    IF i > Len(s) THEN 0
    ELSE IF s[i] = ch THEN i
    ELSE IndexOfFrom(s, ch, i + 1)

IndexOf(s, ch) == IndexOfFrom(s, ch, 1)

RECURSIVE Split(_, _)
Split(s, sep) ==
    LET k == IndexOf(s, sep) IN
    IF k = 0 THEN <<s>>
    ELSE <<SubSeq(s, 1, k - 1)>> \o Split(SubSeq(s, k + 1, Len(s)), sep)

-----------------------------------------------------------------------------
(* Number(string): StringToNumber of ECMAScript, for the literals that can *)
(* reach it here (no '.', '-' or '+' survives the splits): white space is  *)
(* trimmed, the empty string is 0, decimal digits with an optional         *)
(* exponent, 0x / 0o / 0b integer literals; anything else is NaN.          *)

DecDigits == {"0", "1", "2", "3", "4", "5", "6", "7", "8", "9"}
HexLetters == {"a", "b", "c", "d", "e", "f", "A", "B", "C", "D", "E", "F"}
WhiteSpace == {" ", "\t", "\n", "\r"}

DigitVal(c) ==
    CASE c = "0" -> 0 [] c = "1" -> 1 [] c = "2" -> 2 [] c = "3" -> 3
      [] c = "4" -> 4 [] c = "5" -> 5 [] c = "6" -> 6 [] c = "7" -> 7
      [] c = "8" -> 8 [] c = "9" -> 9
      [] c \in {"a", "A"} -> 10 [] c \in {"b", "B"} -> 11
      [] c \in {"c", "C"} -> 12 [] c \in {"d", "D"} -> 13
      [] c \in {"e", "E"} -> 14 [] c \in {"f", "F"} -> 15

RECURSIVE RadixValue(_, _, _)
RadixValue(s, radix, acc) ==
    IF s = <<>> THEN acc
    ELSE RadixValue(Tail(s), radix, acc * radix + DigitVal(Head(s)))

RECURSIVE Pow(_, _)
Pow(b, e) == IF e = 0 THEN 1 ELSE b * Pow(b, e - 1)

AllIn(s, S) == \A i \in 1..Len(s) : s[i] \in S

RECURSIVE TrimLeft(_)
TrimLeft(s) ==
    IF s # <<>> /\ Head(s) \in WhiteSpace THEN TrimLeft(Tail(s)) ELSE s

RECURSIVE TrimRight(_)
TrimRight(s) ==
    IF s # <<>> /\ s[Len(s)] \in WhiteSpace
    THEN TrimRight(SubSeq(s, 1, Len(s) - 1)) ELSE s

Trim(s) == TrimRight(TrimLeft(s))

\* a Number that reads only the leading character of the segment
NumberLeadingDigit(str) ==
    IF str = <<>> THEN 0
    ELSE IF Head(str) \in DecDigits THEN DigitVal(Head(str))
    ELSE NaN

Number(str) ==
    LET s == Trim(str)
        n == Len(s)
        rest == SubSeq(s, 3, n)
        e == IF IndexOf(s, "e") # 0 THEN IndexOf(s, "e") ELSE IndexOf(s, "E")
        mant == SubSeq(s, 1, e - 1)
        expo == SubSeq(s, e + 1, n)
    IN  IF n = 0 THEN 0
        ELSE IF AllIn(s, DecDigits) THEN RadixValue(s, 10, 0)
        ELSE IF n >= 3 /\ s[1] = "0" /\ s[2] \in {"x", "X"}
            THEN IF AllIn(rest, DecDigits \cup HexLetters)
                 THEN RadixValue(rest, 16, 0) ELSE NaN
        ELSE IF n >= 3 /\ s[1] = "0" /\ s[2] \in {"o", "O"}
            THEN IF AllIn(rest, {"0", "1", "2", "3", "4", "5", "6", "7"})
                 THEN RadixValue(rest, 8, 0) ELSE NaN
        ELSE IF n >= 3 /\ s[1] = "0" /\ s[2] \in {"b", "B"}
            THEN IF AllIn(rest, {"0", "1"})
                 THEN RadixValue(rest, 2, 0) ELSE NaN
        ELSE IF e > 1 /\ e < n /\ AllIn(mant, DecDigits) /\ AllIn(expo, DecDigits)
            THEN RadixValue(mant, 10, 0) * Pow(10, RadixValue(expo, 10, 0))
        ELSE NaN

-----------------------------------------------------------------------------
(* compareVersions *)

\* an extraction that cuts the version at '-' only, not at '+'
extractNumericVersionHyphenOnly(version) ==
    LET numericPart == Split(version, "-")[1]
        segs == Split(numericPart, ".")
    IN  [i \in 1..Len(segs) |-> Number(segs[i])]

extractNumericVersion(version) ==
    LET numericPart == Split(Split(version, "-")[1], "+")[1]
        segs == Split(numericPart, ".")
    IN  [i \in 1..Len(segs) |-> Number(segs[i])]

Max(a, b) == IF a >= b THEN a ELSE b

At(parts, i) == IF i <= Len(parts) THEN parts[i] ELSE undefined

Min(a, b) == IF a <= b THEN a ELSE b

\* a loop over the positions both versions have (Math.min for Math.max)
RECURSIVE CompareLoopMin(_, _, _)
CompareLoopMin(v1Parts, v2Parts, i) ==
    IF i > Min(Len(v1Parts), Len(v2Parts)) THEN [ret |-> 0, warned |-> FALSE]
    ELSE LET v1 == OrZero(At(v1Parts, i))
             v2 == OrZero(At(v2Parts, i))
         IN  IF IsNaN(v1) \/ IsNaN(v2) THEN [ret |-> 0, warned |-> TRUE]
             ELSE IF v1 > v2 THEN [ret |-> 1, warned |-> FALSE]
             ELSE IF v1 < v2 THEN [ret |-> -1, warned |-> FALSE]
             ELSE CompareLoopMin(v1Parts, v2Parts, i + 1)

\* a loop over the positions of the first version only (v1Parts.length)
RECURSIVE CompareLoopV1Len(_, _, _)
CompareLoopV1Len(v1Parts, v2Parts, i) ==
    IF i > Len(v1Parts) THEN [ret |-> 0, warned |-> FALSE]
    ELSE LET v1 == OrZero(At(v1Parts, i))
             v2 == OrZero(At(v2Parts, i))
         IN  IF IsNaN(v1) \/ IsNaN(v2) THEN [ret |-> 0, warned |-> TRUE]
             ELSE IF v1 > v2 THEN [ret |-> 1, warned |-> FALSE]
             ELSE IF v1 < v2 THEN [ret |-> -1, warned |-> FALSE]
             ELSE CompareLoopV1Len(v1Parts, v2Parts, i + 1)

\* a loop that stops one position early (i < max - 1)
RECURSIVE CompareLoopOffByOne(_, _, _)
CompareLoopOffByOne(v1Parts, v2Parts, i) ==
    IF i > Max(Len(v1Parts), Len(v2Parts)) - 1 THEN [ret |-> 0, warned |-> FALSE]
    ELSE LET v1 == OrZero(At(v1Parts, i))
             v2 == OrZero(At(v2Parts, i))
         IN  IF IsNaN(v1) \/ IsNaN(v2) THEN [ret |-> 0, warned |-> TRUE]
             ELSE IF v1 > v2 THEN [ret |-> 1, warned |-> FALSE]
             ELSE IF v1 < v2 THEN [ret |-> -1, warned |-> FALSE]
             ELSE CompareLoopOffByOne(v1Parts, v2Parts, i + 1)

\* a loop that returns the difference of the two integers (v1 - v2)
RECURSIVE CompareLoopDiff(_, _, _)
CompareLoopDiff(v1Parts, v2Parts, i) ==
    IF i > Max(Len(v1Parts), Len(v2Parts)) THEN [ret |-> 0, warned |-> FALSE]
    ELSE LET v1 == OrZero(At(v1Parts, i))
             v2 == OrZero(At(v2Parts, i))
         IN  IF IsNaN(v1) \/ IsNaN(v2) THEN [ret |-> 0, warned |-> TRUE]
             ELSE IF v1 # v2 THEN [ret |-> v1 - v2, warned |-> FALSE]
             ELSE CompareLoopDiff(v1Parts, v2Parts, i + 1)

\* the for loop of compareVersions from index i on (1-based); ret is the
\* returned number, warned tells whether console.warn was called
RECURSIVE CompareLoop(_, _, _)
CompareLoop(v1Parts, v2Parts, i) ==
    IF i > Max(Len(v1Parts), Len(v2Parts)) THEN [ret |-> 0, warned |-> FALSE]
    ELSE LET v1 == OrZero(At(v1Parts, i))
             v2 == OrZero(At(v2Parts, i))
         IN  IF IsNaN(v1) \/ IsNaN(v2) THEN [ret |-> 0, warned |-> TRUE]
             ELSE IF v1 > v2 THEN [ret |-> 1, warned |-> FALSE]
             ELSE IF v1 < v2 THEN [ret |-> -1, warned |-> FALSE]
             ELSE CompareLoop(v1Parts, v2Parts, i + 1)

compareVersionsRun(v1, v2) ==
    CompareLoop(extractNumericVersion(v1), extractNumericVersion(v2), 1)

compareVersions(v1, v2) == compareVersionsRun(v1, v2).ret

-----------------------------------------------------------------------------
(* isVersionAtLeast: ret is the returned boolean, called tells whether     *)
(* compareVersions was invoked, warned whether it logged                   *)

Falsy(version) == version = Null \/ version = <<>>

\* a gate that is open when no version is known
isVersionAtLeastRunFailOpen(version, minVersion) ==
    IF Falsy(version) THEN [ret |-> TRUE, called |-> FALSE, warned |-> FALSE]
    ELSE [ret |-> compareVersions(version, minVersion) >= 0,
          called |-> TRUE,
          warned |-> compareVersionsRun(version, minVersion).warned]

isVersionAtLeastRun(version, minVersion) ==
    IF Falsy(version) THEN [ret |-> FALSE, called |-> FALSE, warned |-> FALSE]
    ELSE [ret |-> compareVersions(version, minVersion) >= 0,
          called |-> TRUE,
          warned |-> compareVersionsRun(version, minVersion).warned]

isVersionAtLeast(version, minVersion) == isVersionAtLeastRun(version, minVersion).ret

-----------------------------------------------------------------------------
(* Inputs *)

MaxSegs == 2
MaxBadSegs == 2

ValidTokens == {<<"0">>, <<"2">>, <<"1", "0">>}
BadTokens == {<<"x">>}
MetaSuffixes == {<<"-", "b", ".", "1">>, <<"+", "5">>,
                 <<"-", "1", "+", "2">>, <<"+", "2", "-", "x">>}

RECURSIVE JoinDot(_)
JoinDot(toks) ==
    IF Len(toks) = 1 THEN toks[1]
    ELSE toks[1] \o <<".">> \o JoinDot(Tail(toks))

Dotted(Tokens, maxSegs) ==
    UNION {{JoinDot(f) : f \in [1..k -> Tokens]} : k \in 1..maxSegs}

ValidStrings == Dotted(ValidTokens, MaxSegs)
MalformedStrings ==
    Dotted(ValidTokens \cup BadTokens, MaxBadSegs) \ Dotted(ValidTokens, MaxBadSegs)
SuffixedStrings ==
    {v \o m : v \in Dotted(ValidTokens, MaxBadSegs), m \in MetaSuffixes}

Examples ==
    { <<"4", ".", "1", "0", ".", "2">>,
      <<"4", ".", "9", ".", "0">>,
      <<"4", ".", "6">>,
      <<"4", ".", "6", ".", "0">>,
      <<"4", ".", "6", ".", "1">>,
      <<"4", ".", "5", ".", "9">>,
      <<"4", ".", "5", ".", "0">>,
      <<"4", ".", "x", ".", "0">>,
      <<"4", ".", "6", ".", "0", "-", "b", "e", "t", "a", ".", "1">>,
      <<"4", ".", "6", ".", "0", "+", "b", "u", "i", "l", "d", "5">>,
      <<>>,
      <<".">>,
      <<"2", ".", ".", "1">>,
      <<"-", "1">>,
      <<"0", "x", "1", "0">>,
      <<"0", "2">> }

Inputs == ValidStrings \cup MalformedStrings \cup SuffixedStrings \cup Examples

-----------------------------------------------------------------------------
(* Initial state of the components *)

\* useState(null), useState(true); nothing in flight, nothing asked
ServerInit ==
    /\ serverVersion = Null
    /\ isLoading = TRUE
    /\ pending = 0
    /\ lastProbe = <<>>
    /\ queried = <<>>

DefaultUrl ==
    <<"h", "t", "t", "p", ":", "/", "/", "r", "o", "m", "m", ":", "8", "0", "8", "0">>

\* useState('http://romm:8080'), useState('checking'); the mount effect has
\* armed the debounce timer
ConnInit ==
    /\ serverUrl = DefaultUrl
    /\ timer = TRUE
    /\ tests = <<>>
    /\ connectionStatus = "checking"
    /\ baseUrl = DefaultUrl
    /\ loaded = FALSE

\* useState({username: '', password: ''}), useState(false)
LoginInit ==
    /\ username = <<>>
    /\ password = <<>>
    /\ pcLogin = "idle"
    /\ pcSso = "idle"
    /\ pcClose = "idle"
    /\ showSsoWebView = FALSE
    /\ attempts = 0
    /\ loginCalls = 0
    /\ loginOks = 0
    /\ sessionOks = 0
    /\ navigations = 0

\* no call of the version utilities / of formatUrl is being looked at
VersionIdle ==
    /\ version1 = Null
    /\ version2 = <<>>
    /\ pc = "idle"
    /\ result = <<>>
    /\ gate = <<>>
    /\ warnings = 0
    /\ calls = 0

UrlIdle == fmtUrl = <<>> /\ fmtResult = <<>>

-----------------------------------------------------------------------------
(* The calls *)

Init ==
    /\ version1 \in Inputs \cup {Null}
    /\ version2 \in Inputs
    /\ pc = "idle"
    /\ result = <<>>
    /\ gate = <<>>
    /\ warnings = 0
    /\ calls = 0
    /\ ServerInit /\ ConnInit /\ LoginInit /\ UrlIdle

\* compareVersions(version1, version2)
CompareVersions ==
    /\ pc = "idle"
    /\ version1 # Null
    /\ LET run == compareVersionsRun(version1, version2) IN
        /\ result' = <<run.ret>>
        /\ warnings' = warnings + (IF run.warned THEN 1 ELSE 0)
    /\ calls' = calls + 1
    /\ pc' = "compared"
    /\ UNCHANGED <<version1, version2, gate>>
    /\ UNCHANGED <<serverVars, connVars, urlVars, loginVars>>

\* isVersionAtLeast(version1, version2)
IsVersionAtLeast ==
    /\ pc = "idle"
    /\ LET run == isVersionAtLeastRun(version1, version2) IN
        /\ gate' = <<run.ret>>
        /\ calls' = calls + (IF run.called THEN 1 ELSE 0)
        /\ warnings' = warnings + (IF run.warned THEN 1 ELSE 0)
    /\ pc' = "gated"
    /\ UNCHANGED <<version1, version2, result>>
    /\ UNCHANGED <<serverVars, connVars, urlVars, loginVars>>

Next == CompareVersions \/ IsVersionAtLeast

Spec == Init /\ [][Next]_vars

-----------------------------------------------------------------------------
(* Vocabulary of the properties: what a valid version string is and what   *)
(* its integers are, read off the characters directly (not through Split   *)
(* and Number above)                                                       *)

\* one or more decimal integers separated by single dots
IsValidVersion(s) ==
    /\ s # Null
    /\ s # <<>>
    /\ AllIn(s, DecDigits \cup {"."})
    /\ s[1] # "." /\ s[Len(s)] # "."
    /\ \A i \in 1..(Len(s) - 1) : ~(s[i] = "." /\ s[i + 1] = ".")

\* the segments of s, as strings: a left-to-right scan that closes a
\* segment at each dot
RECURSIVE ScanSegs(_, _, _)
ScanSegs(s, cur, acc) ==
    IF s = <<>> THEN Append(acc, cur)
    ELSE IF Head(s) = "." THEN ScanSegs(Tail(s), <<>>, Append(acc, cur))
    ELSE ScanSegs(Tail(s), Append(cur, Head(s)), acc)

RefSegs(s) == ScanSegs(s, <<>>, <<>>)

DecimalOf(seg) ==
    LET d(c) == CHOOSE n \in 0..9 :
                    <<"0", "1", "2", "3", "4", "5", "6", "7", "8", "9">>[n + 1] = c
        RECURSIVE val(_)
        val(k) == IF k = 0 THEN 0 ELSE 10 * val(k - 1) + d(seg[k])
    IN  val(Len(seg))

\* the integer at position i of a valid version, 0 past its end
RefPart(s, i) ==
    LET segs == RefSegs(s) IN IF i <= Len(segs) THEN DecimalOf(segs[i]) ELSE 0

RefLen(s) == Len(RefSegs(s))

\* the ordering the specification describes, for valid versions
RefCompare(a, b) ==
    LET n == IF RefLen(a) >= RefLen(b) THEN RefLen(a) ELSE RefLen(b)
        diff == {i \in 1..n : RefPart(a, i) # RefPart(b, i)}
    IN  IF diff = {} THEN 0
        ELSE LET first == CHOOSE i \in diff : \A j \in diff : i <= j
             IN  IF RefPart(a, first) > RefPart(b, first) THEN 1 ELSE -1

MetaChars == {"-", "+"}

HasMeta(s) == s # Null /\ \E i \in 1..Len(s) : s[i] \in MetaChars

FirstMeta(s) == CHOOSE i \in 1..Len(s) : s[i] \in MetaChars /\ \A j \in 1..(i - 1) : s[j] \notin MetaChars

\* what is left of s in front of its first '-' or '+'
CutMeta(s) == IF HasMeta(s) THEN SubSeq(s, 1, FirstMeta(s) - 1) ELSE s

\* what follows the first '-' or '+'
MetaSuffix(s) == SubSeq(s, FirstMeta(s) + 1, Len(s))

\* some segment in front of the metadata is a token without any digit
HasNonNumericToken(s) ==
    /\ s # Null
    /\ \E i \in 1..RefLen(CutMeta(s)) :
          LET seg == RefSegs(CutMeta(s))[i] IN
              seg # <<>> /\ \A k \in 1..Len(seg) : seg[k] \notin DecDigits

Str_4_10_2 == <<"4", ".", "1", "0", ".", "2">>
Str_4_9_0 == <<"4", ".", "9", ".", "0">>
Str_4_6 == <<"4", ".", "6">>
Str_4_6_0 == <<"4", ".", "6", ".", "0">>
Str_4_6_1 == <<"4", ".", "6", ".", "1">>
Str_4_5_9 == <<"4", ".", "5", ".", "9">>
Str_4_5_0 == <<"4", ".", "5", ".", "0">>
Str_4_x_0 == <<"4", ".", "x", ".", "0">>
Str_4_6_0_beta_1 == <<"4", ".", "6", ".", "0", "-", "b", "e", "t", "a", ".", "1">>

Compared == pc = "compared"
Gated == pc = "gated"
BothValid == IsValidVersion(version1) /\ IsValidVersion(version2)

-----------------------------------------------------------------------------
\* C1: for valid dotted-integer version1 and version2 the value returned by
\* compareVersions is decided by the integers at the first position where
\* the two versions differ (a missing position counting as 0): 1 if
\* version1's integer is larger, -1 if smaller, 0 if no position differs.
C1_NumericOrder ==
    (Compared /\ BothValid) => result = <<RefCompare(version1, version2)>>

C1_Witness ==
    Compared /\ version1 = Str_4_10_2 /\ version2 = Str_4_9_0 /\ result = <<1>>

\* C2: whenever a segment of either input is a non-numeric token,
\* compareVersions returns 0.
C2_MalformedIsEqual ==
    (Compared /\ (HasNonNumericToken(version1) \/ HasNonNumericToken(version2)))
        => result = <<0>>

\* C3: a version1 that is a valid version followed by '-' or '+' and any
\* suffix compares like the valid version alone, and like the same version
\* with the other metadata sign, against every version2.
C3_MetadataIgnored ==
    (Compared /\ HasMeta(version1) /\ IsValidVersion(CutMeta(version1))) =>
        LET v == CutMeta(version1)
            s == MetaSuffix(version1)
        IN  /\ result = <<compareVersions(v, version2)>>
            /\ result = <<compareVersions(v \o <<"-">> \o s, version2)>>
            /\ result = <<compareVersions(v \o <<"+">> \o s, version2)>>

C3_Witness ==
    Compared /\ version1 = Str_4_6_0_beta_1 /\ version2 = Str_4_6_0 /\ result = <<0>>

\* C4: isVersionAtLeast with an absent (null) version returns false for
\* every minimum version, and compareVersions is not called.
C4_AbsentFailsClosed ==
    (Gated /\ version1 = Null) => (gate = <<FALSE>> /\ calls = 0 /\ warnings = 0)

C4_Witness ==
    Gated /\ version1 = Null /\ version2 = Str_4_6_0 /\ gate = <<FALSE>>

\* C5: for every version that is not null, the empty string included,
\* isVersionAtLeast returns true exactly when compareVersions of the version
\* and the minimum is >= 0.
C5_PresentGateIsCompare ==
    (Gated /\ version1 # Null) =>
        gate = <<compareVersions(version1, version2) >= 0>>

\* C6: a missing trailing segment counts as 0.  When one valid version is
\* the other followed by further dot-separated segments, the two are EQUAL
\* (in both argument orders) if all further segments are zero, and the
\* shorter one is LESS if some further segment is not zero.
IsDottedPrefix(a, b) ==
    /\ Len(a) + 1 < Len(b)
    /\ SubSeq(b, 1, Len(a) + 1) = a \o <<".">>

ExtraAllZero(a, b) ==
    \A i \in (RefLen(a) + 1)..RefLen(b) : RefPart(b, i) = 0

C6_Padding ==
    (Compared /\ BothValid) =>
        /\ IsDottedPrefix(version1, version2) =>
              result = <<IF ExtraAllZero(version1, version2) THEN 0 ELSE -1>>
        /\ IsDottedPrefix(version2, version1) =>
              result = <<IF ExtraAllZero(version2, version1) THEN 0 ELSE 1>>

C6_Witness ==
    Compared /\ version1 = Str_4_6 /\ version2 = Str_4_6_0 /\ result = <<0>>

C6_WitnessLess ==
    Compared /\ version1 = Str_4_6 /\ version2 = Str_4_6_1 /\ result = <<-1>>

\* C7: antisymmetry: for valid version1 and version2, of any segment
\* counts, compareVersions(version1, version2) is the negation of
\* compareVersions(version2, version1).
C7_Antisymmetry ==
    (Compared /\ BothValid) =>
        result = <<0 - compareVersions(version2, version1)>>

C7_Witness ==
    Compared /\ version1 = Str_4_6_1 /\ version2 = Str_4_6 /\ result = <<1>>

\* C8: transitivity: for valid versions, if compareVersions(version1,
\* version2) is not LESS and compareVersions(version2, c) is not LESS then
\* compareVersions(version1, c) is not LESS.
ValidInputs == {s \in Inputs : IsValidVersion(s)}

C8_Transitivity ==
    (Compared /\ BothValid /\ result # <<-1>>) =>
        \A c \in ValidInputs :
            compareVersions(version2, c) # -1 => compareVersions(version1, c) # -1

C8_Witness ==
    /\ Compared /\ version1 = Str_4_10_2 /\ version2 = Str_4_9_0 /\ result = <<1>>
    /\ compareVersions(version2, Str_4_6) = 1
    /\ compareVersions(version1, Str_4_6) = 1

\* C9: compareVersions is total: for every pair of strings, however
\* malformed, the call completes and returns one of 1, -1, 0.
C9_Total ==
    /\ (pc = "idle" /\ version1 # Null) =>
          compareVersions(version1, version2) \in {1, -1, 0}
    /\ Compared => (result \in {<<1>>, <<-1>>, <<0>>} /\ calls = 1)

C9_Witness ==
    Compared /\ version1 = <<>> /\ version2 = <<"-", "1">> /\ result = <<0>>

\* C10: compareVersions logs a warning when some segment of an input fails
\* to parse as an integer, and logs nothing when both inputs are valid.
C10_WarnsOnMalformed ==
    Compared =>
        /\ (HasNonNumericToken(version1) \/ HasNonNumericToken(version2)) => warnings >= 1
        /\ BothValid => warnings = 0

-----------------------------------------------------------------------------
(* What does hold where C5 and C10 fail *)

\* for a version that is neither null nor empty the gate is the comparison
C5_NonEmptyGateIsCompare ==
    (Gated /\ version1 # Null /\ version1 # <<>>) =>
        (gate = <<compareVersions(version1, version2) >= 0>> /\ calls = 1)

\* an empty version is treated like an absent one
C5_EmptyFailsClosed ==
    (Gated /\ version1 = <<>>) => (gate = <<FALSE>> /\ calls = 0)

\* compareVersions never logs, and changes nothing but its result
C10_QuietOnValid == warnings = 0

C10_Frame ==
    [][CompareVersions => (version1' = version1 /\ version2' = version2 /\ gate' = gate)]_vars

-----------------------------------------------------------------------------
(* ServerProvider (contexts/ServerContext)                                 *)

MaxPending == 2

Str_3_0_0 == <<"3", ".", "0", ".", "0">>

\* what heartbeat.SYSTEM.VERSION can be, and the minimum versions asked for
ReportedVersions == {Str_4_10_2, Str_4_6_0, Str_4_5_9, Str_4_x_0, <<>>}
MinVersions == {Str_4_9_0, Str_4_6_0, Str_3_0_0}

\* a gate that needs a strictly newer server
isServerVersionAtLeastStrict(minVersion) ==
    IF Falsy(serverVersion) THEN FALSE
    ELSE compareVersions(serverVersion, minVersion) > 0

\* the callback of the current render, closed over serverVersion
isServerVersionAtLeast(minVersion) ==
    IF Falsy(serverVersion) THEN FALSE
    ELSE compareVersions(serverVersion, minVersion) >= 0

\* refreshServerInfo up to its await: setIsLoading(true), getHeartbeat()
\* (the mount effect makes the first call, any consumer the later ones)
RefreshStart ==
    /\ pending < MaxPending
    /\ isLoading' = TRUE
    /\ pending' = pending + 1
    /\ UNCHANGED <<serverVersion, lastProbe, queried>>
    /\ UNCHANGED <<versionVars, connVars, urlVars, loginVars>>

\* the heartbeat of one call in flight resolves with version v:
\* setServerVersion(version), finally setIsLoading(false)
RefreshSucceed(v) ==
    /\ pending > 0
    /\ serverVersion' = v
    /\ isLoading' = FALSE
    /\ pending' = pending - 1
    /\ lastProbe' = <<"ok", v>>
    /\ UNCHANGED queried
    /\ UNCHANGED <<versionVars, connVars, urlVars, loginVars>>

\* a failed probe that leaves the version it found
RefreshFailKeepsVersion ==
    /\ pending > 0
    /\ isLoading' = FALSE
    /\ pending' = pending - 1
    /\ lastProbe' = <<"fail">>
    /\ UNCHANGED <<serverVersion, queried>>
    /\ UNCHANGED <<versionVars, connVars, urlVars, loginVars>>

\* the heartbeat of one call in flight rejects: catch setServerVersion(null),
\* finally setIsLoading(false)
RefreshFail ==
    /\ pending > 0
    /\ serverVersion' = Null
    /\ isLoading' = FALSE
    /\ pending' = pending - 1
    /\ lastProbe' = <<"fail">>
    /\ UNCHANGED queried
    /\ UNCHANGED <<versionVars, connVars, urlVars, loginVars>>

\* a consumer calls isServerVersionAtLeast(minVersion)
QueryServerVersion(minVersion) ==
    /\ queried' = <<serverVersion, minVersion, isServerVersionAtLeast(minVersion)>>
    /\ UNCHANGED <<serverVersion, isLoading, pending, lastProbe>>
    /\ UNCHANGED <<versionVars, connVars, urlVars, loginVars>>

NextServer ==
    \/ RefreshStart
    \/ \E v \in ReportedVersions : RefreshSucceed(v)
    \/ RefreshFail
    \/ \E m \in MinVersions : QueryServerVersion(m)

InitServer == ServerInit /\ VersionIdle /\ ConnInit /\ LoginInit /\ UrlIdle

SpecServer == InitServer /\ [][NextServer]_vars

\* C11: serverVersion is absent until a probe has finished; after that it
\* is the version the last finished probe reported if that probe succeeded
\* and absent if it failed; starting a refresh or asking the gate changes
\* nothing.
C11_VersionSlot ==
    serverVersion =
        (IF lastProbe # <<>> /\ lastProbe[1] = "ok" THEN lastProbe[2] ELSE Null)

C11_Witness ==
    lastProbe = <<"ok", Str_4_10_2>> /\ serverVersion = Str_4_10_2 /\ pending = 1

C11_WitnessReset ==
    lastProbe = <<"fail">> /\ serverVersion = Null /\ queried # <<>> /\ queried[1] = Str_4_10_2

C13_LoadingWhilePending == pending > 0 => isLoading = TRUE

\* what does hold: with a single call in flight at a time the flag is exact
C13_LoadingWhenSingle ==
    (pending > 0 /\ lastProbe = <<>>) => isLoading = TRUE

-----------------------------------------------------------------------------
(* LoginScreen.formatUrl                                                   *)

Http == <<"h", "t", "t", "p", ":", "/", "/">>
Https == <<"h", "t", "t", "p", "s", ":", "/", "/">>

\* String.prototype.startsWith
StartsWith(s, prefix) ==
    Len(s) >= Len(prefix) /\ SubSeq(s, 1, Len(prefix)) = prefix

\* replace(/\/$/, ''): one slash at the end of the string is removed
DropFinalSlash(s) ==
    IF s # <<>> /\ s[Len(s)] = "/" THEN SubSeq(s, 1, Len(s) - 1) ELSE s

\* a formatUrl that leaves the trailing slash
formatUrlKeepSlash(url) ==
    IF Trim(url) = <<>> THEN url
    ELSE LET trimmed == Trim(url)
         IN  IF ~StartsWith(trimmed, Http) /\ ~StartsWith(trimmed, Https)
             THEN Http \o trimmed ELSE trimmed

formatUrl(url) ==
    IF Trim(url) = <<>> THEN url
    ELSE LET trimmed == Trim(url)
             prefixed == IF ~StartsWith(trimmed, Http) /\ ~StartsWith(trimmed, Https)
                         THEN Http \o trimmed ELSE trimmed
         IN  DropFinalSlash(prefixed)

MaxSlashes == 2

RECURSIVE Slashes(_)
Slashes(n) == IF n = 0 THEN <<>> ELSE <<"/">> \o Slashes(n - 1)

UrlPads == {<<>>, <<" ">>}
UrlProtocols == {<<>>, Http, Https, <<"f", "t", "p", ":", "/", "/">>}
UrlHosts == {<<>>, <<"a">>, <<"a", "/", "b">>}

UrlInputs ==
    {l \o p \o h \o Slashes(n) \o r :
        l \in UrlPads, p \in UrlProtocols, h \in UrlHosts, n \in 0..MaxSlashes,
        r \in UrlPads}
    \cup {DefaultUrl}

UrlInit == fmtUrl \in UrlInputs /\ fmtResult = <<>>

\* formatUrl(fmtUrl)
FormatUrl ==
    /\ fmtResult = <<>>
    /\ fmtResult' = <<formatUrl(fmtUrl)>>
    /\ UNCHANGED fmtUrl
    /\ UNCHANGED <<versionVars, serverVars, connVars, loginVars>>

NextUrl == FormatUrl

InitUrl == UrlInit /\ VersionIdle /\ ServerInit /\ ConnInit /\ LoginInit

SpecUrl == InitUrl /\ [][NextUrl]_vars

Formatted == fmtResult # <<>>

IsBlank(s) == \A i \in 1..Len(s) : s[i] \in WhiteSpace

HasProtocol(s) == StartsWith(s, Http) \/ StartsWith(s, Https)

EndsWithSlash(s) == s # <<>> /\ s[Len(s)] = "/"

EndsWithTwoSlashes(s) ==
    Len(s) >= 2 /\ s[Len(s)] = "/" /\ s[Len(s) - 1] = "/"

\* the url without the white space around it, read off the characters
Core(s) ==
    LET first == CHOOSE i \in 1..Len(s) :
                    s[i] \notin WhiteSpace /\ \A j \in 1..(i - 1) : s[j] \in WhiteSpace
        last == CHOOSE i \in 1..Len(s) :
                    s[i] \notin WhiteSpace /\ \A j \in (i + 1)..Len(s) : s[j] \in WhiteSpace
    IN  SubSeq(s, first, last)

\* the core with "http://" in front when it has no protocol
WithProtocol(s) == IF HasProtocol(Core(s)) THEN Core(s) ELSE Http \o Core(s)

\* C15 as stated: for every url that is not blank the result of formatUrl
\* starts with "http://" or "https://" and does not end with "/".
C15_ProtocolAndNoSlash ==
    (Formatted /\ ~IsBlank(fmtUrl)) =>
        (HasProtocol(fmtResult[1]) /\ ~EndsWithSlash(fmtResult[1]))

\* C15 amended: for every url that is not blank the result is the trimmed
\* url, with "http://" in front when it starts with neither protocol, less
\* one trailing slash if there is one; it starts with "http://" or
\* "https://" and does not end with "/" unless the trimmed url with its
\* protocol ends with "//".
C15_FormatUrl ==
    (Formatted /\ ~IsBlank(fmtUrl)) =>
        LET full == WithProtocol(fmtUrl)
            r == fmtResult[1]
        IN  /\ IF EndsWithSlash(full) THEN r \o <<"/">> = full ELSE r = full
            /\ ~EndsWithTwoSlashes(full) =>
                  (HasProtocol(r) /\ ~EndsWithSlash(r))

C15_Witness ==
    /\ fmtUrl = <<" ", "a", "/", "b", "/", " ">>
    /\ fmtResult = << <<"h", "t", "t", "p", ":", "/", "/", "a", "/", "b">> >>

-----------------------------------------------------------------------------
(* LoginScreen: the connection test                                        *)

MaxTests == 2

Url_a == <<"a">>
Url_b == <<"b">>
Url_b_slash == <<"b", "/">>

\* what the user can type into the URL field, what SecureStore can hold
\* (<<>> is no saved URL), and the base URLs that answer the heartbeat
TypedUrls == {Url_a, Url_b, Url_b_slash, <<" ">>, <<>>}
SavedUrls == {<<>>, Http \o Url_a, Http \o Url_b}
ReachableBases == {Http \o Url_a}

\* apiClient.heartbeat() against base: true, or false / an error
Heartbeat(base) == base \in ReachableBases

\* the effect on [serverUrl] when setServerUrl(newUrl) is rendered: nothing
\* if the value is the same; else the cleanup clears the timer and a new
\* one is set if newUrl is not empty
TimerAfter(newUrl) == IF newUrl = serverUrl THEN timer ELSE newUrl # <<>>

\* loadSavedUrl (mount effect), once SecureStore.getItemAsync has settled
LoadSavedUrl(savedUrl) ==
    /\ ~loaded
    /\ loaded' = TRUE
    /\ LET newUrl == IF savedUrl # <<>> THEN savedUrl ELSE baseUrl IN
        /\ serverUrl' = newUrl
        /\ timer' = TimerAfter(newUrl)
    /\ baseUrl' = IF savedUrl # <<>> THEN savedUrl ELSE baseUrl
    /\ UNCHANGED <<tests, connectionStatus>>
    /\ UNCHANGED <<versionVars, serverVars, urlVars, loginVars>>

\* handleUrlChange(newUrl): the user edits the URL field
HandleUrlChange(newUrl) ==
    /\ newUrl # serverUrl
    /\ serverUrl' = newUrl
    /\ timer' = TimerAfter(newUrl)
    /\ baseUrl' = IF Trim(newUrl) # <<>> THEN formatUrl(newUrl) ELSE baseUrl
    /\ UNCHANGED <<tests, connectionStatus, loaded>>
    /\ UNCHANGED <<versionVars, serverVars, urlVars, loginVars>>

\* the 800 ms timer fires: testConnection up to its await
TimerFires ==
    /\ timer
    /\ timer' = FALSE
    /\ IF Trim(serverUrl) = <<>>
       THEN UNCHANGED <<tests, connectionStatus, baseUrl>>
       ELSE /\ Len(tests) < MaxTests
            /\ connectionStatus' = "checking"
            /\ baseUrl' = formatUrl(serverUrl)
            /\ tests' = Append(tests, formatUrl(serverUrl))
    /\ UNCHANGED <<serverUrl, loaded>>
    /\ UNCHANGED <<versionVars, serverVars, urlVars, loginVars>>

\* the heartbeat of the i-th test in flight settles: testConnection after
\* its await (resolved true, resolved false, or the catch)
TestFinishes(i) ==
    /\ i \in 1..Len(tests)
    /\ connectionStatus' = IF Heartbeat(tests[i]) THEN "connected" ELSE "failed"
    /\ tests' = SubSeq(tests, 1, i - 1) \o SubSeq(tests, i + 1, Len(tests))
    /\ UNCHANGED <<serverUrl, timer, baseUrl, loaded>>
    /\ UNCHANGED <<versionVars, serverVars, urlVars, loginVars>>

NextConn ==
    \/ \E u \in SavedUrls : LoadSavedUrl(u)
    \/ \E u \in TypedUrls : HandleUrlChange(u)
    \/ TimerFires
    \/ \E i \in 1..MaxTests : TestFinishes(i)

InitConn == ConnInit /\ VersionIdle /\ ServerInit /\ LoginInit /\ UrlIdle

SpecConn == InitConn /\ [][NextConn]_vars

\* no timer is pending and no test is in flight
ConnQuiet == ~timer /\ tests = <<>>

\* C14: once no timer is pending and every started test has finished,
\* connectionStatus is the heartbeat outcome for the current serverUrl, if
\* that is not blank.
C14_StatusIsCurrent ==
    (ConnQuiet /\ ~IsBlank(serverUrl)) =>
        connectionStatus =
            (IF Heartbeat(formatUrl(serverUrl)) THEN "connected" ELSE "failed")

\* what does hold: a test is only ever started for the URL of the field
\* (a change within the debounce cancels the timer), so the newest test in
\* flight is for the current URL whenever no timer is pending
C14_NewestTestIsCurrent ==
    (~timer /\ tests # <<>> /\ ~IsBlank(serverUrl) /\ connectionStatus = "checking") =>
        tests[Len(tests)] = formatUrl(serverUrl)

-----------------------------------------------------------------------------
(* LoginScreen: password login and the SSO modal                           *)

MaxAttempts == 2

\* what the user can type as username and as password
TypedTexts == {<<>>, <<" ">>, <<"u">>}

\* the screen is shown (and takes input) until router.replace('/')
OnLoginScreen == navigations = 0

SetUsername(text) ==
    /\ OnLoginScreen
    /\ text # username
    /\ username' = text
    /\ UNCHANGED <<password, pcLogin, pcSso, pcClose, showSsoWebView,
                   attempts, loginCalls, loginOks, sessionOks, navigations>>
    /\ UNCHANGED <<versionVars, serverVars, connVars, urlVars>>

SetPassword(text) ==
    /\ OnLoginScreen
    /\ text # password
    /\ password' = text
    /\ UNCHANGED <<username, pcLogin, pcSso, pcClose, showSsoWebView,
                   attempts, loginCalls, loginOks, sessionOks, navigations>>
    /\ UNCHANGED <<versionVars, serverVars, connVars, urlVars>>

\* handleLogin up to its await: the blank check and toast, or clearError,
\* updateBaseUrl and the call of login(credentials)
HandleLogin ==
    /\ OnLoginScreen
    /\ pcLogin = "idle"
    /\ attempts < MaxAttempts
    /\ attempts' = attempts + 1
    /\ IF Trim(username) = <<>> \/ Trim(password) = <<>>
       THEN UNCHANGED <<pcLogin, loginCalls, baseUrl>>
       ELSE /\ baseUrl' = formatUrl(serverUrl)
            /\ loginCalls' = loginCalls + 1
            /\ pcLogin' = "login"
    /\ UNCHANGED <<username, password, pcSso, pcClose, showSsoWebView,
                   loginOks, sessionOks, navigations>>
    /\ UNCHANGED <<serverUrl, timer, tests, connectionStatus, loaded>>
    /\ UNCHANGED <<versionVars, serverVars, urlVars>>

\* login(credentials) resolves: the URL is saved if it is not blank (the
\* save is awaited), else router.replace('/') at once
LoginResolves ==
    /\ pcLogin = "login"
    /\ loginOks' = loginOks + 1
    /\ IF Trim(formatUrl(serverUrl)) # <<>>
       THEN pcLogin' = "saving" /\ UNCHANGED navigations
       ELSE pcLogin' = "idle" /\ navigations' = navigations + 1
    /\ UNCHANGED <<username, password, pcSso, pcClose, showSsoWebView,
                   attempts, loginCalls, sessionOks>>
    /\ UNCHANGED <<versionVars, serverVars, connVars, urlVars>>

\* a rejected login that goes on to the home route
LoginRejectsNavigates ==
    /\ pcLogin = "login"
    /\ pcLogin' = "idle"
    /\ navigations' = navigations + 1
    /\ UNCHANGED <<username, password, pcSso, pcClose, showSsoWebView,
                   attempts, loginCalls, loginOks, sessionOks>>
    /\ UNCHANGED <<versionVars, serverVars, connVars, urlVars>>

\* login(credentials) rejects: the catch shows the error toast
LoginRejects ==
    /\ pcLogin = "login"
    /\ pcLogin' = "idle"
    /\ UNCHANGED <<username, password, pcSso, pcClose, showSsoWebView,
                   attempts, loginCalls, loginOks, sessionOks, navigations>>
    /\ UNCHANGED <<versionVars, serverVars, connVars, urlVars>>

\* SecureStore.setItemAsync settles (resolved, or rejected and logged):
\* router.replace('/')
SaveSettles ==
    /\ pcLogin = "saving"
    /\ pcLogin' = "idle"
    /\ navigations' = navigations + 1
    /\ UNCHANGED <<username, password, pcSso, pcClose, showSsoWebView,
                   attempts, loginCalls, loginOks, sessionOks>>
    /\ UNCHANGED <<versionVars, serverVars, connVars, urlVars>>

\* handleSsoLogin: the modal with the web view opens
HandleSsoLogin ==
    /\ OnLoginScreen
    /\ ~showSsoWebView
    /\ showSsoWebView' = TRUE
    /\ baseUrl' = formatUrl(serverUrl)
    /\ UNCHANGED <<username, password, pcLogin, pcSso, pcClose,
                   attempts, loginCalls, loginOks, sessionOks, navigations>>
    /\ UNCHANGED <<serverUrl, timer, tests, connectionStatus, loaded>>
    /\ UNCHANGED <<versionVars, serverVars, urlVars>>

\* handleWebViewNavigationStateChange sees the home page:
\* setTimeout(checkSessionAndClose, 1000)
SsoBackAtHome ==
    /\ showSsoWebView
    /\ pcSso = "idle"
    /\ pcSso' = "timer"
    /\ UNCHANGED <<username, password, pcLogin, pcClose, showSsoWebView,
                   attempts, loginCalls, loginOks, sessionOks, navigations>>
    /\ UNCHANGED <<versionVars, serverVars, connVars, urlVars>>

\* the timer fires: checkSessionAndClose calls apiClient.checkSession()
SsoCheckStarts ==
    /\ pcSso = "timer"
    /\ pcSso' = "check"
    /\ UNCHANGED <<username, password, pcLogin, pcClose, showSsoWebView,
                   attempts, loginCalls, loginOks, sessionOks, navigations>>
    /\ UNCHANGED <<versionVars, serverVars, connVars, urlVars>>

\* checkSession resolves true: refreshUser() is called
SsoSessionValid ==
    /\ pcSso = "check"
    /\ pcSso' = "refresh"
    /\ UNCHANGED <<username, password, pcLogin, pcClose, showSsoWebView,
                   attempts, loginCalls, loginOks, sessionOks, navigations>>
    /\ UNCHANGED <<versionVars, serverVars, connVars, urlVars>>

\* checkSession resolves false (logged), or checkSession or refreshUser
\* rejects (the catch): checkSessionAndClose returns
SsoCheckFails ==
    /\ pcSso \in {"check", "refresh"}
    /\ pcSso' = "idle"
    /\ UNCHANGED <<username, password, pcLogin, pcClose, showSsoWebView,
                   attempts, loginCalls, loginOks, sessionOks, navigations>>
    /\ UNCHANGED <<versionVars, serverVars, connVars, urlVars>>

\* refreshUser resolves: setShowSsoWebView(false), toast, router.replace('/')
SsoRefreshDone ==
    /\ pcSso = "refresh"
    /\ pcSso' = "idle"
    /\ sessionOks' = sessionOks + 1
    /\ showSsoWebView' = FALSE
    /\ navigations' = navigations + 1
    /\ UNCHANGED <<username, password, pcLogin, pcClose,
                   attempts, loginCalls, loginOks>>
    /\ UNCHANGED <<versionVars, serverVars, connVars, urlVars>>

\* handleCloseModal up to its first await: apiClient.checkSession() is called
HandleCloseModal ==
    /\ showSsoWebView
    /\ pcClose = "idle"
    /\ pcClose' = "check"
    /\ UNCHANGED <<username, password, pcLogin, pcSso, showSsoWebView,
                   attempts, loginCalls, loginOks, sessionOks, navigations>>
    /\ UNCHANGED <<versionVars, serverVars, connVars, urlVars>>

\* checkSession resolves true: refreshUser() is called
CloseSessionValid ==
    /\ pcClose = "check"
    /\ pcClose' = "refresh"
    /\ UNCHANGED <<username, password, pcLogin, pcSso, showSsoWebView,
                   attempts, loginCalls, loginOks, sessionOks, navigations>>
    /\ UNCHANGED <<versionVars, serverVars, connVars, urlVars>>

\* checkSession resolves false: setShowSsoWebView(false)
CloseSessionInvalid ==
    /\ pcClose = "check"
    /\ pcClose' = "idle"
    /\ showSsoWebView' = FALSE
    /\ UNCHANGED <<username, password, pcLogin, pcSso,
                   attempts, loginCalls, loginOks, sessionOks, navigations>>
    /\ UNCHANGED <<versionVars, serverVars, connVars, urlVars>>

\* checkSession or refreshUser rejects: there is no try, the handler's
\* promise rejects and nothing after the await runs
CloseThrows ==
    /\ pcClose \in {"check", "refresh"}
    /\ pcClose' = "idle"
    /\ UNCHANGED <<username, password, pcLogin, pcSso, showSsoWebView,
                   attempts, loginCalls, loginOks, sessionOks, navigations>>
    /\ UNCHANGED <<versionVars, serverVars, connVars, urlVars>>

\* refreshUser resolves: setShowSsoWebView(false), toast, router.replace('/')
CloseRefreshDone ==
    /\ pcClose = "refresh"
    /\ pcClose' = "idle"
    /\ sessionOks' = sessionOks + 1
    /\ showSsoWebView' = FALSE
    /\ navigations' = navigations + 1
    /\ UNCHANGED <<username, password, pcLogin, pcSso,
                   attempts, loginCalls, loginOks>>
    /\ UNCHANGED <<versionVars, serverVars, connVars, urlVars>>

NextLogin ==
    \/ \E text \in TypedTexts : SetUsername(text)
    \/ \E text \in TypedTexts : SetPassword(text)
    \/ HandleLogin
    \/ LoginResolves
    \/ LoginRejects
    \/ SaveSettles
    \/ HandleSsoLogin
    \/ SsoBackAtHome
    \/ SsoCheckStarts
    \/ SsoSessionValid
    \/ SsoCheckFails
    \/ SsoRefreshDone
    \/ HandleCloseModal
    \/ CloseSessionValid
    \/ CloseSessionInvalid
    \/ CloseThrows
    \/ CloseRefreshDone

InitLogin == LoginInit /\ VersionIdle /\ ServerInit /\ ConnInit /\ UrlIdle

SpecLogin == InitLogin /\ [][NextLogin]_vars

\* C16: every router.replace('/') follows a login that resolved or a valid
\* session check whose refreshUser completed (there are never more
\* navigations than such events); a press of the login button with a blank
\* username or password calls nothing: login is not called and no handler
\* is left running.
C16_NavigationOnlyAfterSuccess ==
    /\ [](navigations <= loginOks + sessionOks)
    /\ [](loginOks <= loginCalls)
    /\ [][(attempts' # attempts /\ (IsBlank(username) \/ IsBlank(password))) =>
            (loginCalls' = loginCalls /\ pcLogin' = "idle" /\ navigations' = navigations)]_vars

C16_Witness ==
    /\ navigations = 1 /\ loginOks = 1 /\ sessionOks = 0
    /\ attempts = 2 /\ loginCalls = 1

C16_WitnessSso ==
    navigations = 1 /\ loginOks = 0 /\ sessionOks = 1 /\ loginCalls = 1 /\ pcLogin = "idle"

\* C17: handleCloseModal always ends with showSsoWebView = false: whenever
\* the handler finishes, however its session check turned out, the web view
\* is hidden.
C17_CloseAlwaysHides ==
    [][(pcClose # "idle" /\ pcClose' = "idle") => showSsoWebView' = FALSE]_vars

\* what does hold: the handler hides the web view when checkSession
\* resolves (valid with refreshUser resolving, or invalid)
C17_CloseHidesUnlessError ==
    [][(CloseSessionInvalid \/ CloseRefreshDone) => showSsoWebView' = FALSE]_vars

====
